---- MODULE Spec2Model ----
(***************************************************************************)
(* The CEC responder task of RT4K-CEC (src/src/cec-task.c): startup,       *)
(* logical-address allocation and the opcode dispatch of cec_task; and its *)
(* log (src/src/cec-log.c): the enabled flag, the message buffer, the      *)
(* emitter task and the formatter cec_log_frame.                           *)
(*                                                                         *)
(* A frame is the sequence of its octets: pld[i] of the C code is f[i+1]   *)
(* here and pldcnt is Len(f).  The receive buffer is zeroed at the top of  *)
(* every loop iteration (cec-task.c:204), so an octet the line driver did  *)
(* not store reads as 0 (operator Pld).                                    *)
(***************************************************************************)
EXTENDS Integers, Sequences, FiniteSets, TLC

(***************************************************************************)
(* Opcodes (cec-id.h, HDMI-CEC 1.3a).                                      *)
(***************************************************************************)
CEC_ID_FEATURE_ABORT == 0
CEC_ID_IMAGE_VIEW_ON == 4
CEC_ID_TEXT_VIEW_ON == 13
CEC_ID_STANDBY == 54
CEC_ID_USER_CONTROL_PRESSED == 68
CEC_ID_USER_CONTROL_RELEASED == 69
CEC_ID_GIVE_OSD_NAME == 70
CEC_ID_SET_OSD_NAME == 71
CEC_ID_SYSTEM_AUDIO_MODE_REQUEST == 112
CEC_ID_GIVE_AUDIO_STATUS == 113
CEC_ID_SET_SYSTEM_AUDIO_MODE == 114
CEC_ID_REPORT_AUDIO_STATUS == 122
CEC_ID_GIVE_SYSTEM_AUDIO_MODE_STATUS == 125
CEC_ID_SYSTEM_AUDIO_MODE_STATUS == 126
CEC_ID_ROUTING_CHANGE == 128
CEC_ID_ACTIVE_SOURCE == 130
CEC_ID_GIVE_PHYSICAL_ADDRESS == 131
CEC_ID_REPORT_PHYSICAL_ADDRESS == 132
CEC_ID_REQUEST_ACTIVE_SOURCE == 133
CEC_ID_SET_STREAM_PATH == 134
CEC_ID_DEVICE_VENDOR_ID == 135
CEC_ID_GIVE_DEVICE_VENDOR_ID == 140
CEC_ID_MENU_REQUEST == 141
CEC_ID_MENU_STATUS == 142
CEC_ID_GIVE_DEVICE_POWER_STATUS == 143
CEC_ID_REPORT_POWER_STATUS == 144
CEC_ID_GET_MENU_LANGUAGE == 145
CEC_ID_INACTIVE_SOURCE == 157
CEC_ID_CEC_VERSION == 158
CEC_ID_GET_CEC_VERSION == 159
CEC_ID_VENDOR_COMMAND_WITH_ID == 160
CEC_ID_REQUEST_ARC_INITIATION == 195
CEC_ID_ABORT == 255

\* cec_abort_t
CEC_ABORT_UNRECOGNIZED == 0
CEC_ABORT_REFUSED == 4

\* cec_menu_t
CEC_MENU_ACTIVATE == 0
CEC_MENU_DEACTIVATE == 1
CEC_MENU_QUERY == 2

HID_KEY_NONE == 0

\* The length of the HID queue *q, which main() creates.
HidQueueLen == 1

\* Device types: the row index of laddress.
CEC_TYPE_TV == 0
CEC_TYPE_PLAYBACK == 4
CEC_TYPE_AUDIO == 5

NUM_LADDRESS == 4
NUM_TYPES == 6

\* laddress[NUM_TYPES][NUM_LADDRESS], rows indexed from 0 as in C.
laddress ==
  [t \in 0..(NUM_TYPES - 1) |->
     CASE t = 0 -> <<0, 0, 0, 0>>
       [] t = 1 -> <<1, 2, 9, 15>>
       [] t = 2 -> <<15, 15, 15, 15>>
       [] t = 3 -> <<3, 6, 7, 15>>
       [] t = 4 -> <<4, 8, 11, 15>>
       [] t = 5 -> <<5, 5, 5, 5>>]

\* The logical address of a node that holds none (initial laddr, broadcast).
UNREGISTERED == 15

(***************************************************************************)
(* Octet arithmetic.                                                       *)
(***************************************************************************)
\* Mutation of HEADER0: the nibbles swapped.
HEADER0_swapped(iaddr, daddr) == ((daddr * 16) % 256) + (iaddr % 16)

\* #define HEADER0(iaddr, daddr) ((iaddr << 4) | daddr), stored in a uint8_t;
\* daddr is always a nibble in this program.
HEADER0(iaddr, daddr) == ((iaddr * 16) % 256) + daddr

\* pld[i] of the zero-initialised 16-octet receive buffer.
Pld(f, i) == IF i < Len(f) THEN f[i + 1] ELSE 0

\* (pld[i] << 8) | pld[i + 1]
Word(f, i) == Pld(f, i) * 256 + Pld(f, i + 1)

Initiator(f) == (Pld(f, 0) \div 16) % 16
Destination(f) == Pld(f, 0) % 16

(***************************************************************************)
(* Outbound frame constructors, one per sender function.                   *)
(***************************************************************************)
cec_feature_abort(initiator, destination, msg, reason) ==
  <<HEADER0(initiator, destination), CEC_ID_FEATURE_ABORT, msg, reason>>

device_vendor_id(initiator, destination, vendor_id) ==
  <<HEADER0(initiator, destination), CEC_ID_DEVICE_VENDOR_ID,
    (vendor_id \div 65536) % 256, (vendor_id \div 256) % 256, vendor_id % 256>>

report_power_status(initiator, destination, power_status) ==
  <<HEADER0(initiator, destination), CEC_ID_REPORT_POWER_STATUS, power_status>>

set_system_audio_mode(initiator, destination, system_audio_mode) ==
  <<HEADER0(initiator, destination), CEC_ID_SET_SYSTEM_AUDIO_MODE, system_audio_mode>>

report_audio_status(initiator, destination, status) ==
  <<HEADER0(initiator, destination), CEC_ID_REPORT_AUDIO_STATUS, status>>

system_audio_mode_status(initiator, destination, status) ==
  <<HEADER0(initiator, destination), CEC_ID_SYSTEM_AUDIO_MODE_STATUS, status>>

set_osd_name(initiator, destination) ==
  <<HEADER0(initiator, destination), CEC_ID_SET_OSD_NAME,
    80, 105, 99, 111, 45, 67, 69, 67>>

report_physical_address(initiator, destination, physical_address, device_type) ==
  <<HEADER0(initiator, destination), CEC_ID_REPORT_PHYSICAL_ADDRESS,
    (physical_address \div 256) % 256, physical_address % 256, device_type>>

report_cec_version(initiator, destination) ==
  <<HEADER0(initiator, destination), CEC_ID_CEC_VERSION, 4>>

cec_ping(destination) == <<HEADER0(destination, destination)>>

image_view_on(initiator, destination) ==
  <<HEADER0(initiator, destination), CEC_ID_IMAGE_VIEW_ON>>

active_source(initiator, physical_address) ==
  <<HEADER0(initiator, 15), CEC_ID_ACTIVE_SOURCE,
    (physical_address \div 256) % 256, physical_address % 256>>

\* bool converted to uint8_t
B2N(b) == IF b THEN 1 ELSE 0

menu_status(initiator, destination, state) ==
  <<HEADER0(initiator, destination), CEC_ID_MENU_STATUS,
    IF state THEN CEC_MENU_ACTIVATE ELSE CEC_MENU_DEACTIVATE>>

(***************************************************************************)
(* The configurations nvs_load_config may deliver and the traffic of the   *)
(* bus: the values the model draws its inputs from.                        *)
(***************************************************************************)
\* config.keymap: no entry but that of 0x41 (volume up) has a name.
KeymapName(code) == IF code = 65 THEN "Volume Up" ELSE "NULL"
KeymapKey(code) == IF code = 65 THEN 128 ELSE HID_KEY_NONE

\* Physical addresses on the wire and in the EDID: 0.0.0.0, 3.0.0.0, 3.0.1.0.
AddrOperands == {0, 12288, 12304}
DdcValues == {0, 12304}
ByteOperands == {0, 1, 2, 65}
Initiators == {0, 5}

\* Auto-allocating configurations of every device type, a configuration that
\* takes its physical address from the EDID, and fixed logical addresses.
Configs ==
  {[device_type |-> t, logical_address |-> 15, physical_address |-> 12288] :
      t \in 0..(NUM_TYPES - 1)}
  \cup {[device_type |-> CEC_TYPE_PLAYBACK, logical_address |-> 0, physical_address |-> 0]}
  \cup {[device_type |-> t, logical_address |-> 4, physical_address |-> 12288] :
      t \in 0..(NUM_TYPES - 1)}
  \cup {[device_type |-> CEC_TYPE_AUDIO, logical_address |-> 5, physical_address |-> 0]}

\* The opcodes of the switch in cec_task, in the order of its case labels.
SwitchOpcodes ==
  {CEC_ID_IMAGE_VIEW_ON, CEC_ID_TEXT_VIEW_ON, CEC_ID_STANDBY,
   CEC_ID_SYSTEM_AUDIO_MODE_REQUEST, CEC_ID_GIVE_AUDIO_STATUS,
   CEC_ID_SET_SYSTEM_AUDIO_MODE, CEC_ID_GIVE_SYSTEM_AUDIO_MODE_STATUS,
   CEC_ID_SYSTEM_AUDIO_MODE_STATUS, CEC_ID_ROUTING_CHANGE, CEC_ID_ACTIVE_SOURCE,
   CEC_ID_REPORT_PHYSICAL_ADDRESS, CEC_ID_REQUEST_ACTIVE_SOURCE,
   CEC_ID_SET_STREAM_PATH, CEC_ID_DEVICE_VENDOR_ID, CEC_ID_GIVE_DEVICE_VENDOR_ID,
   CEC_ID_MENU_STATUS, CEC_ID_MENU_REQUEST, CEC_ID_GIVE_DEVICE_POWER_STATUS,
   CEC_ID_REPORT_POWER_STATUS, CEC_ID_GET_MENU_LANGUAGE, CEC_ID_INACTIVE_SOURCE,
   CEC_ID_CEC_VERSION, CEC_ID_GET_CEC_VERSION, CEC_ID_GIVE_OSD_NAME,
   CEC_ID_SET_OSD_NAME, CEC_ID_GIVE_PHYSICAL_ADDRESS, CEC_ID_USER_CONTROL_PRESSED,
   CEC_ID_USER_CONTROL_RELEASED, CEC_ID_ABORT, CEC_ID_FEATURE_ABORT,
   CEC_ID_VENDOR_COMMAND_WITH_ID}

\* Opcodes with no case label: REPORT_AUDIO_STATUS and 0xAA.
OtherOpcodes == {CEC_ID_REPORT_AUDIO_STATUS, 170}

Opcodes == SwitchOpcodes \cup OtherOpcodes

\* The frames with header h and opcode op: complete ones and every truncation,
\* with the operand octets the dispatch of op looks at drawn from the sets above.
FramesOf(h, op) ==
  {<<h, op>>} \cup
  (CASE op = CEC_ID_ROUTING_CHANGE ->
          {<<h, op, 0>>, <<h, op, 0, 0>>}
          \cup {<<h, op, 0, 0, a \div 256>> : a \in AddrOperands}
          \cup {<<h, op, 0, 0, a \div 256, a % 256>> : a \in AddrOperands}
     [] op \in {CEC_ID_ACTIVE_SOURCE, CEC_ID_SET_STREAM_PATH} ->
          {<<h, op, a \div 256>> : a \in AddrOperands}
          \cup {<<h, op, a \div 256, a % 256>> : a \in AddrOperands}
     [] op \in {CEC_ID_SET_SYSTEM_AUDIO_MODE, CEC_ID_MENU_REQUEST,
                CEC_ID_USER_CONTROL_PRESSED} ->
          {<<h, op, b>> : b \in ByteOperands}
     [] OTHER -> {})

\* What cec_frame_recv may deliver while the node holds logical address l:
\* polling messages and frames to l, to the broadcast address and to the TV.
Headers(l) == {HEADER0(i, d) : i \in Initiators, d \in {0, 15, l}}
Frames(l) ==
  {<<>>} \cup {<<h>> : h \in Headers(l)}
  \cup UNION {FramesOf(h, op) : h \in Headers(l), op \in Opcodes}

\* What the bus answers to the PINGs of one allocation: the acknowledgements
\* the loop of allocate_logical_address gets to see, which end with the first
\* PING nobody acknowledged or with the NUM_LADDRESS-th.
AckRuns ==
  {a \in UNION {[1..n -> BOOLEAN] : n \in 1..NUM_LADDRESS} :
     /\ \A i \in 1..(Len(a) - 1) : a[i]
     /\ Len(a) < NUM_LADDRESS => ~a[Len(a)]}

(***************************************************************************)
(* State.                                                                  *)
(***************************************************************************)
VARIABLES
  config,        \* static cec_config_t config
  laddr,         \* static uint8_t laddr
  paddr,         \* static uint16_t paddr
  active_addr,   \* static uint16_t active_addr
  audio_status,  \* static bool audio_status
  menu_state,    \* bool menu_state, local to cec_task, outside its loop
  no_active,     \* uint8_t no_active, local to one loop iteration
  rx,            \* the frame cec_frame_recv delivered in this iteration
  out,           \* the frames handed to cec_frame_send since startup began or
                 \* since this iteration began, each with the laddr at that
                 \* moment and the acknowledgement cec_frame_send returned
  hidq,          \* the HID queue *q
  no_active_counter,  \* the counter REQUEST_ACTIVE_SOURCE would keep if no_active
                 \* outlived the iteration: kept by SpecCounter only, as a
                 \* yardstick beside the code's no_active
  hid_log,       \* what became of the latest calls of xQueueSend, each with the
                 \* key code and whether it was queued: kept by SpecKeys only
  pc,            \* where cec_task stands
  enabled,       \* static volatile bool enabled (cec-log.c)
  log_mb,        \* the lines in the message buffer log_mb, oldest first
  sunk,          \* the line the emitter task handed to the sink last, with the
                 \* value enabled had then (none yet: the empty sequence)
  log_arg,       \* the arguments cec_log_frame is called with in this run
  log_call       \* the latest call into cec-log.c: its name, the lines it handed
                 \* to cec_log_vsubmitf and whether it read through an absent
                 \* table entry

taskvars == <<config, laddr, paddr, active_addr, audio_status, menu_state,
              no_active, rx, out, hidq, no_active_counter, hid_log, pc>>

logvars == <<enabled, log_mb, sunk, log_arg, log_call>>

vars == <<taskvars, logvars>>

\* The mutable state the sender functions and the dispatch work on.
State ==
  [laddr |-> laddr, paddr |-> paddr, active_addr |-> active_addr,
   audio_status |-> audio_status, menu_state |-> menu_state,
   no_active |-> no_active, out |-> out, hidq |-> hidq]

\* cec_frame_send(len, pld), returning ack.
cec_frame_send(s, pld, ack) ==
  [s EXCEPT !.out = Append(@, [pld |-> pld, laddr |-> s.laddr, ack |-> ack])]

\* Mutation of xQueueSend: a full queue gives up its oldest item for the key.
xQueueSend_overwrites(s, key, drain) ==
  IF Len(s.hidq) < HidQueueLen THEN [s EXCEPT !.hidq = Append(@, key)]
  ELSE [s EXCEPT !.hidq = Append(Tail(@), key)]

\* xQueueSend(*q, &key, pdMS_TO_TICKS(10)): the key is queued if there is room,
\* or if the HID task takes an item within the 10 ms (drain); else it is dropped.
xQueueSend(s, key, drain) ==
  IF Len(s.hidq) < HidQueueLen THEN [s EXCEPT !.hidq = Append(@, key)]
  ELSE IF drain THEN [s EXCEPT !.hidq = Append(Tail(@), key)]
  ELSE s

(***************************************************************************)
(* Address allocation.                                                     *)
(***************************************************************************)
\* The for loop of allocate_logical_address from index i (1-based here) on:
\* PING the candidate, stop when nobody acknowledges.  Yields the state with
\* the PINGs sent and the last candidate a.
RECURSIVE AllocLoop(_, _, _, _)
AllocLoop(s, row, acks, i) ==
  LET a == row[i]
      t == cec_frame_send(s, cec_ping(a), acks[i])
  IN  IF ~acks[i] THEN [s |-> t, a |-> a]
      ELSE IF i = NUM_LADDRESS THEN [s |-> t, a |-> a]
      ELSE AllocLoop(t, row, acks, i + 1)

\* Mutation of allocate_logical_address: the loop is left after its first PING
\* whatever the answer.
allocate_claims_first(s, cfg, acks) ==
  IF cfg.logical_address # 0 /\ cfg.logical_address # 15
    THEN [s |-> s, a |-> cfg.logical_address]
    ELSE [s |-> cec_frame_send(s, cec_ping(laddress[cfg.device_type][1]), acks[1]),
          a |-> laddress[cfg.device_type][1]]

\* Mutation of allocate_logical_address: the configured address is ignored
\* and the row is always probed.
allocate_always_probes(s, cfg, acks) ==
  AllocLoop(s, laddress[cfg.device_type], acks, 1)

\* static uint8_t allocate_logical_address(cec_config_t *config)
allocate_logical_address(s, cfg, acks) ==
  IF cfg.logical_address # 0 /\ cfg.logical_address # 15
    THEN [s |-> s, a |-> cfg.logical_address]
    ELSE AllocLoop(s, laddress[cfg.device_type], acks, 1)

\* uint16_t get_physical_address(const cec_config_t *config); ddc is what
\* ddc_get_physical_address() returns at this call.
get_physical_address(cfg, ddc) ==
  IF cfg.physical_address = 0 THEN ddc ELSE cfg.physical_address

\* paddr = get_physical_address(&config); laddr = allocate_logical_address(&config);
Readdress(s, cfg, e) ==
  LET r == allocate_logical_address(
             [s EXCEPT !.paddr = get_physical_address(cfg, e.ddc)], cfg, e.acks)
  IN  [r.s EXCEPT !.laddr = r.a]

(***************************************************************************)
(* The cases of the switch in cec_task.  s is the state, f the frame, cfg  *)
(* the configuration, e the environment's answers during this iteration:   *)
(* e.acks to the PINGs, e.racks to the other frames sent, e.ddc from the   *)
(* EDID, e.drain from the HID task.                                        *)
(***************************************************************************)
\* Mutation of OnStandby: the destination is not looked at.
OnStandby_unfiltered(s, f) == [s EXCEPT !.active_addr = 0]

OnStandby(s, f) ==
  IF Destination(f) = s.laddr \/ Destination(f) = 15
    THEN [s EXCEPT !.active_addr = 0]
    ELSE s

OnSystemAudioModeRequest(s, f, e) ==
  IF Destination(f) = s.laddr
    THEN cec_frame_send(s, set_system_audio_mode(s.laddr, Initiator(f),
                                                 B2N(s.audio_status)), e.racks[1])
    ELSE s

OnGiveAudioStatus(s, f, e) ==
  IF Destination(f) = s.laddr
    THEN cec_frame_send(s, report_audio_status(s.laddr, Initiator(f), 50), e.racks[1])
    ELSE s

OnSetSystemAudioMode(s, f) ==
  IF Destination(f) = s.laddr \/ Destination(f) = 15
    THEN [s EXCEPT !.audio_status = (Pld(f, 2) = 1)]
    ELSE s

OnGiveSystemAudioModeStatus(s, f, e) ==
  IF Destination(f) = s.laddr
    THEN cec_frame_send(s, system_audio_mode_status(s.laddr, Initiator(f),
                                                    B2N(s.audio_status)), e.racks[1])
    ELSE s

\* Mutation of AnnounceActive: ACTIVE_SOURCE is sent only if IMAGE_VIEW_ON was
\* acknowledged.
AnnounceActive_stops_on_nack(s, e) ==
  LET t1 == cec_frame_send(s, image_view_on(s.laddr, 0), e.racks[1])
      t2 == IF e.racks[1]
              THEN cec_frame_send(t1, active_source(s.laddr, s.paddr), e.racks[2])
              ELSE t1
  IN  [t2 EXCEPT !.no_active = 0]

\* image_view_on(laddr, 0x00); active_source(laddr, paddr); no_active = 0;
AnnounceActive(s, e) ==
  LET t1 == cec_frame_send(s, image_view_on(s.laddr, 0), e.racks[1])
      t2 == cec_frame_send(t1, active_source(s.laddr, s.paddr), e.racks[2])
  IN  [t2 EXCEPT !.no_active = 0]

\* Mutation of OnRoutingChange: paddr and laddr are not derived anew.
OnRoutingChange_keeps_addresses(s, f, cfg, e) ==
  LET t == [s EXCEPT !.active_addr = Word(f, 4)]
  IN  IF t.paddr = t.active_addr THEN AnnounceActive(t, e) ELSE t

OnRoutingChange(s, f, cfg, e) ==
  LET t == Readdress([s EXCEPT !.active_addr = Word(f, 4)], cfg, e)
  IN  IF t.paddr = t.active_addr THEN AnnounceActive(t, e) ELSE t

OnActiveSource(s, f) ==
  [s EXCEPT !.active_addr = Word(f, 2), !.no_active = 0]

OnReportPhysicalAddress(s, f, cfg, e) ==
  IF Initiator(f) = 0 /\ Destination(f) = 15
    THEN LET t == Readdress(s, cfg, e)
         IN  IF t.paddr # 0
               THEN cec_frame_send(t, report_physical_address(t.laddr, 15, t.paddr,
                                                              cfg.device_type), e.racks[1])
               ELSE t
    ELSE s

\* Mutation of OnRequestActiveSource: the node announces itself at every request.
OnRequestActiveSource_always(s, e) ==
  AnnounceActive([s EXCEPT !.no_active = (@ + 1) % 256], e)

OnRequestActiveSource(s, e) ==
  LET t == [s EXCEPT !.no_active = (@ + 1) % 256]
  IN  IF t.paddr = t.active_addr \/ t.no_active > 2 THEN AnnounceActive(t, e) ELSE t

\* Mutation of OnSetStreamPath: ACTIVE_SOURCE is sent before IMAGE_VIEW_ON.
OnSetStreamPath_reordered(s, f, e) ==
  IF s.paddr = Word(f, 2)
    THEN LET t1 == [s EXCEPT !.active_addr = s.paddr]
             t2 == cec_frame_send(t1, active_source(t1.laddr, t1.paddr), e.racks[1])
             t3 == cec_frame_send(t2, image_view_on(t2.laddr, 0), e.racks[2])
             t4 == [t3 EXCEPT !.menu_state = TRUE]
             t5 == cec_frame_send(t4, menu_status(t4.laddr, 0, t4.menu_state), e.racks[3])
         IN  [t5 EXCEPT !.no_active = 0]
    ELSE s

OnSetStreamPath(s, f, e) ==
  IF s.paddr = Word(f, 2)
    THEN LET t1 == [s EXCEPT !.active_addr = s.paddr]
             t2 == cec_frame_send(t1, image_view_on(t1.laddr, 0), e.racks[1])
             t3 == cec_frame_send(t2, active_source(t2.laddr, t2.paddr), e.racks[2])
             t4 == [t3 EXCEPT !.menu_state = TRUE]
             t5 == cec_frame_send(t4, menu_status(t4.laddr, 0, t4.menu_state), e.racks[3])
         IN  [t5 EXCEPT !.no_active = 0]
    ELSE s

OnDeviceVendorId(s, f, e) ==
  IF Initiator(f) = 0 /\ Destination(f) = 15
    THEN cec_frame_send(s, device_vendor_id(s.laddr, 15, 4346), e.racks[1])
    ELSE s

OnGiveDeviceVendorId(s, f, e) ==
  IF Destination(f) = s.laddr
    THEN cec_frame_send(s, device_vendor_id(s.laddr, 15, 4346), e.racks[1])
    ELSE s

OnMenuRequest(s, f, e) ==
  IF Destination(f) = s.laddr
    THEN LET request == Pld(f, 2)
             t == CASE request = CEC_MENU_ACTIVATE -> [s EXCEPT !.menu_state = TRUE]
                    [] request = CEC_MENU_DEACTIVATE -> [s EXCEPT !.menu_state = FALSE]
                    [] OTHER -> s
         IN  cec_frame_send(t, menu_status(t.laddr, Initiator(f), t.menu_state), e.racks[1])
    ELSE s

\* Mutation of OnGiveDevicePowerStatus: the operand is inverted.
OnGiveDevicePowerStatus_inverted(s, f, e) ==
  IF Destination(f) = s.laddr
    THEN cec_frame_send(s, report_power_status(s.laddr, Initiator(f),
                                               B2N(s.active_addr = s.paddr)), e.racks[1])
    ELSE s

OnGiveDevicePowerStatus(s, f, e) ==
  IF Destination(f) = s.laddr
    THEN cec_frame_send(s, report_power_status(s.laddr, Initiator(f),
                                               B2N(s.active_addr # s.paddr)), e.racks[1])
    ELSE s

OnGetCecVersion(s, f, e) ==
  IF Destination(f) = s.laddr
    THEN cec_frame_send(s, report_cec_version(s.laddr, Initiator(f)), e.racks[1])
    ELSE s

\* Mutation of OnGiveOsdName: the name is broadcast.
OnGiveOsdName_broadcast(s, f, e) ==
  IF Destination(f) = s.laddr
    THEN cec_frame_send(s, set_osd_name(s.laddr, 15), e.racks[1])
    ELSE s

OnGiveOsdName(s, f, e) ==
  IF Destination(f) = s.laddr
    THEN cec_frame_send(s, set_osd_name(s.laddr, Initiator(f)), e.racks[1])
    ELSE s

OnGivePhysicalAddress(s, f, cfg, e) ==
  IF Destination(f) = s.laddr /\ s.paddr # 0
    THEN cec_frame_send(s, report_physical_address(s.laddr, 15, s.paddr,
                                                   cfg.device_type), e.racks[1])
    ELSE s

\* Mutation of OnUserControlPressed: the name of the entry is not looked at.
OnUserControlPressed_unchecked(s, f, e) ==
  IF Destination(f) = s.laddr
    THEN xQueueSend(s, KeymapKey(Pld(f, 2)), e.drain)
    ELSE s

OnUserControlPressed(s, f, e) ==
  IF Destination(f) = s.laddr /\ KeymapName(Pld(f, 2)) # "NULL"
    THEN xQueueSend(s, KeymapKey(Pld(f, 2)), e.drain)
    ELSE s

OnUserControlReleased(s, f, e) ==
  IF Destination(f) = s.laddr
    THEN xQueueSend(s, HID_KEY_NONE, e.drain)
    ELSE s

OnAbort(s, f, e) ==
  IF Destination(f) = s.laddr
    THEN cec_frame_send(s, cec_feature_abort(s.laddr, Initiator(f), Pld(f, 1),
                                             CEC_ABORT_REFUSED), e.racks[1])
    ELSE s

\* Mutation of OnDefault: the abort goes to the destination of the frame, not
\* to its initiator.
OnDefault_to_destination(s, f, e) ==
  IF Destination(f) = s.laddr
    THEN cec_frame_send(s, cec_feature_abort(s.laddr, Destination(f), Pld(f, 1),
                                             CEC_ABORT_UNRECOGNIZED), e.racks[1])
    ELSE s

OnDefault(s, f, e) ==
  IF Destination(f) = s.laddr
    THEN cec_frame_send(s, cec_feature_abort(s.laddr, Initiator(f), Pld(f, 1),
                                             CEC_ABORT_UNRECOGNIZED), e.racks[1])
    ELSE s

\* The cases that only break.
SilentOpcodes ==
  {CEC_ID_IMAGE_VIEW_ON, CEC_ID_TEXT_VIEW_ON, CEC_ID_SYSTEM_AUDIO_MODE_STATUS,
   CEC_ID_MENU_STATUS, CEC_ID_REPORT_POWER_STATUS, CEC_ID_GET_MENU_LANGUAGE,
   CEC_ID_INACTIVE_SOURCE, CEC_ID_CEC_VERSION, CEC_ID_SET_OSD_NAME,
   CEC_ID_FEATURE_ABORT, CEC_ID_VENDOR_COMMAND_WITH_ID}

\* switch (op) { ... } of cec_task, where the code has op = pld[1].
Switch(s, f, op, cfg, e) ==
  CASE op \in SilentOpcodes -> s
    [] op = CEC_ID_STANDBY -> OnStandby(s, f)
    [] op = CEC_ID_SYSTEM_AUDIO_MODE_REQUEST -> OnSystemAudioModeRequest(s, f, e)
    [] op = CEC_ID_GIVE_AUDIO_STATUS -> OnGiveAudioStatus(s, f, e)
    [] op = CEC_ID_SET_SYSTEM_AUDIO_MODE -> OnSetSystemAudioMode(s, f)
    [] op = CEC_ID_GIVE_SYSTEM_AUDIO_MODE_STATUS -> OnGiveSystemAudioModeStatus(s, f, e)
    [] op = CEC_ID_ROUTING_CHANGE -> OnRoutingChange(s, f, cfg, e)
    [] op = CEC_ID_ACTIVE_SOURCE -> OnActiveSource(s, f)
    [] op = CEC_ID_REPORT_PHYSICAL_ADDRESS -> OnReportPhysicalAddress(s, f, cfg, e)
    [] op = CEC_ID_REQUEST_ACTIVE_SOURCE -> OnRequestActiveSource(s, e)
    [] op = CEC_ID_SET_STREAM_PATH -> OnSetStreamPath(s, f, e)
    [] op = CEC_ID_DEVICE_VENDOR_ID -> OnDeviceVendorId(s, f, e)
    [] op = CEC_ID_GIVE_DEVICE_VENDOR_ID -> OnGiveDeviceVendorId(s, f, e)
    [] op = CEC_ID_MENU_REQUEST -> OnMenuRequest(s, f, e)
    [] op = CEC_ID_GIVE_DEVICE_POWER_STATUS -> OnGiveDevicePowerStatus(s, f, e)
    [] op = CEC_ID_GET_CEC_VERSION -> OnGetCecVersion(s, f, e)
    [] op = CEC_ID_GIVE_OSD_NAME -> OnGiveOsdName(s, f, e)
    [] op = CEC_ID_GIVE_PHYSICAL_ADDRESS -> OnGivePhysicalAddress(s, f, cfg, e)
    [] op = CEC_ID_USER_CONTROL_PRESSED -> OnUserControlPressed(s, f, e)
    [] op = CEC_ID_USER_CONTROL_RELEASED -> OnUserControlReleased(s, f, e)
    [] op = CEC_ID_ABORT -> OnAbort(s, f, e)
    [] OTHER -> OnDefault(s, f, e)

\* Mutation of Dispatch: the switch is on pld[0] and the length is not looked at.
Dispatch_on_header(s, f, cfg, e) == Switch(s, f, Pld(f, 0), cfg, e)

\* if ((pldcnt > 1)) { switch (pld[1]) { ... } }
Dispatch(s, f, cfg, e) ==
  IF Len(f) > 1 THEN Switch(s, f, Pld(f, 1), cfg, e) ELSE s

(***************************************************************************)
(* The environment's answers during one iteration that handles frame f:    *)
(* only the answers the case of f asks for are drawn.                      *)
(***************************************************************************)
Readdresses(f) ==
  Len(f) > 1 /\ Pld(f, 1) \in {CEC_ID_ROUTING_CHANGE, CEC_ID_REPORT_PHYSICAL_ADDRESS}

\* The answers to the PINGs and of the EDID, for the frames that re-derive
\* laddr and paddr under a configuration that leaves them open.
PingAnswers(f, cfg) ==
  IF Readdresses(f) /\ cfg.logical_address \in {0, 15} THEN AckRuns ELSE {<<>>}
DdcAnswers(f, cfg) ==
  IF Readdresses(f) /\ cfg.physical_address = 0 THEN DdcValues ELSE {0}

\* Whether the HID task takes an item while xQueueSend waits on a full queue.
DrainAnswers(f, q) ==
  IF Len(f) > 1 /\ Len(q) = HidQueueLen
     /\ Pld(f, 1) \in {CEC_ID_USER_CONTROL_PRESSED, CEC_ID_USER_CONTROL_RELEASED}
    THEN BOOLEAN ELSE {FALSE}

\* No case sends more than three frames besides the PINGs.
MaxReplies == 3
AllAcked == [i \in 1..MaxReplies |-> TRUE]

\* The frames of o that are not PINGs.
Replies(o) == SelectSeq(o, LAMBDA m : Len(m.pld) > 1)

(***************************************************************************)
(* Actions.                                                                *)
(***************************************************************************)
\* No frame is logged in this run.
NoArg == [frame |-> <<>>, recv |-> FALSE, ack |-> FALSE]

\* cec_log_init: the message buffer is created empty, enabled = false.
InitLogger ==
  /\ enabled = FALSE
  /\ log_mb = <<>>
  /\ sunk = <<>>
  /\ log_call = [fn |-> "cec_log_init", said |-> <<>>, bad |-> FALSE]

InitTask ==
  /\ config \in Configs
  /\ laddr = 15
  /\ paddr = 0
  /\ active_addr = 0
  /\ audio_status = FALSE
  /\ menu_state = FALSE
  /\ no_active = 0
  /\ rx = <<>>
  /\ out = <<>>
  /\ hidq = <<>>
  /\ no_active_counter = 0
  /\ hid_log = <<>>
  /\ pc = "boot"

Init == InitTask /\ InitLogger /\ log_arg = NoArg

Install(t) ==
  /\ laddr' = t.laddr
  /\ paddr' = t.paddr
  /\ active_addr' = t.active_addr
  /\ audio_status' = t.audio_status
  /\ menu_state' = t.menu_state
  /\ no_active' = t.no_active
  /\ out' = t.out
  /\ hidq' = t.hidq

\* cec_task up to its loop: the configuration is loaded, paddr and laddr are set.
Startup ==
  /\ pc = "boot"
  /\ \E a \in AckRuns, d \in DdcValues :
       Install(Readdress(State, config, [acks |-> a, ddc |-> d]))
  /\ pc' = "started"
  /\ UNCHANGED <<config, rx, no_active_counter, hid_log>>
  /\ UNCHANGED logvars

\* The top of the loop body: the locals pld and no_active are initialised and
\* the task blocks in cec_frame_recv.
LoopTop ==
  /\ pc \in {"started", "handled"}
  /\ rx' = <<>>
  /\ no_active' = 0
  /\ out' = <<>>
  /\ pc' = "recv"
  /\ UNCHANGED <<config, laddr, paddr, active_addr, audio_status, menu_state,
                 hidq, no_active_counter, hid_log>>
  /\ UNCHANGED logvars

\* cec_frame_recv returns f and the rest of the loop body handles it, the HID
\* task answering h to a wait of xQueueSend.  The
\* acknowledgements of the replies are drawn for as many replies as the case
\* sends (it sends the same ones whatever the acknowledgements are: no sender
\* function but cec_ping returns the result of cec_frame_send).
HandleWith(f, h) ==
  /\ rx' = f
  /\ \E a \in PingAnswers(f, config), d \in DdcAnswers(f, config) :
       LET dry == Dispatch(State, f, config,
                           [acks |-> a, racks |-> AllAcked, ddc |-> d, drain |-> h])
       IN  \E r \in [1..Len(Replies(dry.out)) -> BOOLEAN] :
             Install(Dispatch(State, f, config,
                              [acks |-> a, racks |-> r, ddc |-> d, drain |-> h]))
  /\ pc' = "handled"
  /\ UNCHANGED config
  /\ UNCHANGED logvars

\* The same, whatever the HID task does while xQueueSend waits.
Handle(f) == \E h \in DrainAnswers(f, hidq) : HandleWith(f, h)

RecvFrame ==
  /\ pc = "recv"
  /\ \E f \in Frames(laddr) : Handle(f)
  /\ UNCHANGED <<no_active_counter, hid_log>>

\* The HID task takes a key code from the queue.
HidTask ==
  /\ hidq # <<>>
  /\ hidq' = Tail(hidq)
  /\ UNCHANGED <<config, laddr, paddr, active_addr, audio_status, menu_state,
                 no_active, rx, out, no_active_counter, hid_log, pc>>
  /\ UNCHANGED logvars

Next == Startup \/ LoopTop \/ RecvFrame \/ HidTask

Spec == Init /\ [][Next]_vars

(***************************************************************************)
(* SpecCounter: the same task, fed only the frames that bear on the        *)
(* active-source election, with no_active_counter kept as the counter      *)
(* would stand if it were persistent: REQUEST_ACTIVE_SOURCE increments it, *)
(* it is reset when the election fires (paddr = active_addr, or the        *)
(* counter exceeds 2) and by ACTIVE_SOURCE.  The value 3 stands for "has   *)
(* just exceeded 2": the election is due at this frame.                    *)
(***************************************************************************)
CounterOpcodes ==
  {CEC_ID_REQUEST_ACTIVE_SOURCE, CEC_ID_ACTIVE_SOURCE, CEC_ID_STANDBY, CEC_ID_GIVE_OSD_NAME}

CounterFrames(l) ==
  UNION {FramesOf(h, op) : h \in Headers(l), op \in CounterOpcodes}

CounterAfter(c, f, pa, aa) ==
  LET base == IF c = 3 THEN 0 ELSE c
  IN  CASE Pld(f, 1) = CEC_ID_REQUEST_ACTIVE_SOURCE -> IF pa = aa THEN 0 ELSE base + 1
        [] Pld(f, 1) = CEC_ID_ACTIVE_SOURCE -> 0
        [] OTHER -> base

RecvFrameCounted ==
  /\ pc = "recv"
  /\ \E f \in CounterFrames(laddr) :
       /\ Handle(f)
       /\ no_active_counter' = CounterAfter(no_active_counter, f, paddr, active_addr)
  /\ UNCHANGED hid_log

NextCounter == Startup \/ LoopTop \/ RecvFrameCounted

SpecCounter == Init /\ [][NextCounter]_vars

(***************************************************************************)
(* SpecKeys: the same task, fed the user-control frames and a request that  *)
(* is answered, with hid_log kept: the key code of each call of xQueueSend  *)
(* and whether the queue took it, for the latest LogLen calls.              *)
(***************************************************************************)
LogLen == 2

KeyOpcodes == {CEC_ID_USER_CONTROL_PRESSED, CEC_ID_USER_CONTROL_RELEASED}

KeyFrames(l) ==
  UNION {FramesOf(h, op) : h \in Headers(l), op \in KeyOpcodes \cup {CEC_ID_GIVE_OSD_NAME}}

\* The key codes the case of f hands to xQueueSend (none or one): what an
\* empty queue holds after the dispatch of f.
Offered(f) ==
  Dispatch([State EXCEPT !.hidq = <<>>], f, config,
           [acks |-> <<>>, racks |-> AllAcked, ddc |-> 0, drain |-> FALSE]).hidq

\* The last n elements of q.
LastN(q, n) == IF Len(q) <= n THEN q ELSE SubSeq(q, Len(q) - n + 1, Len(q))

\* xQueueSend returns pdTRUE iff there was room or room appeared in the wait.
LogAfter(log, keys, room, h) ==
  IF keys = <<>> THEN log
  ELSE LastN(Append(log, [key |-> keys[1], queued |-> (room \/ h)]), LogLen)

RecvFrameKeys ==
  /\ pc = "recv"
  /\ \E f \in KeyFrames(laddr) : \E h \in DrainAnswers(f, hidq) :
       /\ HandleWith(f, h)
       /\ hid_log' = LogAfter(hid_log, Offered(f), Len(hidq) < HidQueueLen, h)
  /\ UNCHANGED no_active_counter

NextKeys == Startup \/ LoopTop \/ RecvFrameKeys \/ HidTask

SpecKeys == Init /\ [][NextKeys]_vars

(***************************************************************************)
(* SpecBus: the same task, fed every frame but the user-control ones, which *)
(* are the only ones whose cases touch the HID queue: the queue stays       *)
(* empty and the HID task has nothing to take.                              *)
(***************************************************************************)
BusFrames(l) == {f \in Frames(l) : Len(f) <= 1 \/ Pld(f, 1) \notin KeyOpcodes}

RecvFrameBus ==
  /\ pc = "recv"
  /\ \E f \in BusFrames(laddr) : Handle(f)
  /\ UNCHANGED <<no_active_counter, hid_log>>

NextBus == Startup \/ LoopTop \/ RecvFrameBus

SpecBus == Init /\ [][NextBus]_vars

(***************************************************************************)
(* The log (src/src/cec-log.c).  A line is the string handed to the        *)
(* message buffer, with the arrow log_printf put into it (none: "") and    *)
(* the value enabled had when it was submitted.                            *)
(***************************************************************************)
LOG_LINE_LENGTH == 64
LOG_QUEUE_LENGTH == 16
LOG_MB_SIZE == LOG_LINE_LENGTH * LOG_QUEUE_LENGTH

\* No more than this many lines wait in the message buffer when a call into
\* the log begins.
MaxBuffered == 2

\* An absent entry of a table of strings.
NULL == "NULL"

\* const char *cec_message[]: 256 entries, those not named are absent.
cec_message ==
  [cmd \in 0..255 |->
     CASE cmd = CEC_ID_FEATURE_ABORT -> "Feature Abort"
       [] cmd = CEC_ID_IMAGE_VIEW_ON -> "Image View On"
       [] cmd = CEC_ID_TEXT_VIEW_ON -> "Text View On"
       [] cmd = CEC_ID_STANDBY -> "Standby"
       [] cmd = CEC_ID_USER_CONTROL_PRESSED -> "User Control Pressed"
       [] cmd = CEC_ID_USER_CONTROL_RELEASED -> "User Control Released"
       [] cmd = CEC_ID_GIVE_OSD_NAME -> "Give OSD Name"
       [] cmd = CEC_ID_SET_OSD_NAME -> "Set OSD Name"
       [] cmd = CEC_ID_SYSTEM_AUDIO_MODE_REQUEST -> "System Audio Mode Request"
       [] cmd = CEC_ID_GIVE_AUDIO_STATUS -> "Give Audio Status"
       [] cmd = CEC_ID_SET_SYSTEM_AUDIO_MODE -> "Set System Audio Mode"
       [] cmd = CEC_ID_GIVE_SYSTEM_AUDIO_MODE_STATUS -> "Give System Audio Mode"
       [] cmd = CEC_ID_SYSTEM_AUDIO_MODE_STATUS -> "System Audio Mode Status"
       [] cmd = CEC_ID_REPORT_AUDIO_STATUS -> "Report Audio Status"
       [] cmd = CEC_ID_ROUTING_CHANGE -> "Routing Change"
       [] cmd = CEC_ID_ACTIVE_SOURCE -> "Active Source"
       [] cmd = CEC_ID_GIVE_PHYSICAL_ADDRESS -> "Give Physical Address"
       [] cmd = CEC_ID_REPORT_PHYSICAL_ADDRESS -> "Report Physical Address"
       [] cmd = CEC_ID_REQUEST_ACTIVE_SOURCE -> "Request Active Source"
       [] cmd = CEC_ID_SET_STREAM_PATH -> "Set Stream Path"
       [] cmd = CEC_ID_DEVICE_VENDOR_ID -> "Device Vendor ID"
       [] cmd = CEC_ID_GIVE_DEVICE_VENDOR_ID -> "Give Device Vendor ID"
       [] cmd = CEC_ID_MENU_STATUS -> "Menu Status"
       [] cmd = CEC_ID_MENU_REQUEST -> "Menu Request"
       [] cmd = CEC_ID_GIVE_DEVICE_POWER_STATUS -> "Give Device Power Status"
       [] cmd = CEC_ID_REPORT_POWER_STATUS -> "Report Power Status"
       [] cmd = CEC_ID_GET_MENU_LANGUAGE -> "Get Menu Language"
       [] cmd = CEC_ID_INACTIVE_SOURCE -> "Inactive Source"
       [] cmd = CEC_ID_CEC_VERSION -> "CEC Version"
       [] cmd = CEC_ID_GET_CEC_VERSION -> "Get CEC Version"
       [] cmd = CEC_ID_VENDOR_COMMAND_WITH_ID -> "Vendor Command With ID"
       [] cmd = CEC_ID_REQUEST_ARC_INITIATION -> "Request ARC Initiation"
       [] cmd = CEC_ID_ABORT -> "Abort"
       [] OTHER -> NULL]

\* const char *cec_feature_abort_reason[]: six entries, indexed from 0.
NUM_REASONS == 6
cec_feature_abort_reason ==
  [r \in 0..(NUM_REASONS - 1) |->
     CASE r = 0 -> "Unrecognized opcode"
       [] r = 1 -> "Not in correct mode to respond"
       [] r = 2 -> "Cannot provide source"
       [] r = 3 -> "Invalid operand"
       [] r = 4 -> "Refused"
       [] r = 5 -> "Undetermined"]

\* const char *cec_user_control_name[] (cec-user.c): the name of 0x41.
cec_user_control_name(key) == IF key = 65 THEN "Volume Up" ELSE NULL

\* What the read of a string through a null pointer, or through the pointer
\* found beyond the end of a table, comes to: the task faults, or the memory
\* read begins with a NUL octet, or it holds some other characters.
WildReads == {"fault", "empty", "text"}
WildText == "<?>"

\* _LOG_BR
LOG_BR == "\r\n"

\* util_uptime_ms() as printed with %10llu.
Uptime == "      1234"

HexDigit == <<"0", "1", "2", "3", "4", "5", "6", "7",
              "8", "9", "a", "b", "c", "d", "e", "f">>

\* %02x and %x of an octet
Hex02(b) == HexDigit[(b \div 16) + 1] \o HexDigit[(b % 16) + 1]
Hex(b) == IF b < 16 THEN HexDigit[b + 1] ELSE Hex02(b)

\* The octets the lines of mb take in the message buffer.
RECURSIVE MbUsed(_)
MbUsed(mb) == IF mb = <<>> THEN 0 ELSE Len(Head(mb).text) + 1 + MbUsed(Tail(mb))

\* The state the functions of cec-log.c work on; said and bad make log_call.
Logger ==
  [enabled |-> enabled, mb |-> log_mb, said |-> <<>>, bad |-> FALSE, fault |-> FALSE]

\* xMessageBufferSend(log_mb, buffer, bytes + 1, pdMS_TO_TICKS(20)): a line that
\* finds no room is dropped (room the emitter task makes during the wait is
\* the emitter's step taken before this one).
xMessageBufferSend(g, line) ==
  IF MbUsed(g.mb) + Len(line.text) + 1 <= LOG_MB_SIZE
    THEN [g EXCEPT !.mb = Append(@, line)]
    ELSE g

\* Mutation of cec_log_vsubmitf: enabled is not looked at.
cec_log_vsubmitf_unguarded(g, text, arrow) ==
  LET line == [text |-> text, arrow |-> arrow, on |-> g.enabled]
      h == [g EXCEPT !.said = Append(@, line)]
  IN  IF Len(text) < LOG_LINE_LENGTH THEN xMessageBufferSend(h, line) ELSE h

\* void cec_log_vsubmitf(const char *fmt, va_list ap), text being what fmt and
\* ap format to: vsnprintf stores no more than 63 of its characters and
\* returns the length of all of it.
cec_log_vsubmitf(g, text, arrow) ==
  LET line == [text |-> text, arrow |-> arrow, on |-> g.enabled]
      h == [g EXCEPT !.said = Append(@, line)]
      bytes == Len(text)
  IN  IF g.enabled /\ bytes < LOG_LINE_LENGTH THEN xMessageBufferSend(h, line) ELSE h

\* What snprintf(buffer, 64, ...) leaves in buffer of a text of 64 characters
\* or more: its first 63 characters, which "#" stands for here.
Clipped ==
  "###############################################################"
snprintf(text) == IF Len(text) < LOG_LINE_LENGTH THEN text ELSE Clipped

\* static void log_printf(initiator, destination, send, ack, fmt, ...), body
\* being what fmt and the arguments after it format to.
log_printf(g, initiator, destination, send, ack, body) ==
  LET arrow == IF send THEN (IF ack THEN "->" ELSE "~>")
                       ELSE (IF ack THEN "<-" ELSE "<~")
      prefix == snprintf("[" \o Uptime \o "] "
                         \o Hex02(IF send THEN initiator ELSE destination)
                         \o " " \o arrow \o " "
                         \o Hex02(IF send THEN destination ELSE initiator))
  IN  cec_log_vsubmitf(g, prefix \o ": " \o snprintf(body) \o LOG_BR, arrow)

\* The for loop of the VENDOR_COMMAND_WITH_ID case from octet i on.
RECURSIVE HexDump(_, _, _)
HexDump(g, f, i) ==
  IF i >= Len(f) THEN g
  ELSE HexDump(cec_log_vsubmitf(g, " " \o Hex02(Pld(f, i)) \o LOG_BR, ""), f, i + 1)

\* A %s conversion of the string read through a wild pointer.
WildString(g, wild, initiator, destination, send, ack, before, after) ==
  IF wild = "fault" THEN [g EXCEPT !.bad = TRUE, !.fault = TRUE]
  ELSE log_printf([g EXCEPT !.bad = TRUE], initiator, destination, send, ack,
                  before \o (IF wild = "empty" THEN "" ELSE WildText) \o after)

\* void cec_log_frame(cec_frame_t *frame, bool recv), a being the frame, its
\* ack and recv, and wild what a wild read comes to in this call.
cec_log_frame(g, a, wild) ==
  LET f == a.frame
      initiator == Initiator(f)
      destination == Destination(f)
      cmd == Pld(f, 1)
      P(body) == log_printf(g, initiator, destination, a.recv, a.ack, body)
      name == "[" \o cec_message[cmd] \o "]"
  IN  IF Len(f) > 1
        THEN CASE cmd = CEC_ID_FEATURE_ABORT ->
                    IF Pld(f, 3) < NUM_REASONS
                      THEN P(name \o "[" \o Hex(Pld(f, 2)) \o "]["
                             \o cec_feature_abort_reason[Pld(f, 3)] \o "]")
                      ELSE WildString(g, wild, initiator, destination, a.recv, a.ack,
                                      name \o "[" \o Hex(Pld(f, 2)) \o "][", "]")
               [] cmd = CEC_ID_STANDBY -> P(name \o "[Display OFF]")
               [] cmd = CEC_ID_ROUTING_CHANGE ->
                    P(name \o "[" \o Hex02(Pld(f, 2)) \o Hex02(Pld(f, 3)) \o " -> "
                      \o Hex02(Pld(f, 4)) \o Hex02(Pld(f, 5)) \o "]")
               [] cmd = CEC_ID_ACTIVE_SOURCE ->
                    P(name \o "[" \o Hex02(Pld(f, 2)) \o Hex02(Pld(f, 3)) \o " Display ON]")
               [] cmd = CEC_ID_REPORT_PHYSICAL_ADDRESS ->
                    P(name \o " " \o Hex02(Pld(f, 2)) \o Hex02(Pld(f, 3)))
               [] cmd = CEC_ID_USER_CONTROL_PRESSED ->
                    IF cec_user_control_name(Pld(f, 2)) # NULL
                      THEN P(name \o "[" \o cec_user_control_name(Pld(f, 2)) \o "]")
                      ELSE P(name \o " Unknown command: 0x" \o Hex02(Pld(f, 2)))
               [] cmd = CEC_ID_VENDOR_COMMAND_WITH_ID -> HexDump(P(name), f, 0)
               [] cmd = CEC_ID_REPORT_POWER_STATUS ->
                    P(name \o "["
                      \o (CASE Pld(f, 2) = 0 -> "On"
                            [] Pld(f, 2) = 1 -> "Standby"
                            [] Pld(f, 2) = 2 -> "In transition Standby to On"
                            [] Pld(f, 2) = 3 -> "In transition On to Standby"
                            [] OTHER -> "unknown")
                      \o "]")
               [] cmd \in {CEC_ID_MENU_STATUS, CEC_ID_MENU_REQUEST} ->
                    P(name \o "[" \o Hex02(Pld(f, 2)) \o "]")
               [] OTHER ->
                    \* const char *message = cec_message[cmd]; strlen(message)
                    IF cec_message[cmd] # NULL
                      THEN IF Len(cec_message[cmd]) > 0
                             THEN P(name)
                             ELSE P("[" \o Hex(cmd) \o "] (undecoded)")
                      ELSE CASE wild = "fault" -> [g EXCEPT !.bad = TRUE, !.fault = TRUE]
                             [] wild = "empty" ->
                                  log_printf([g EXCEPT !.bad = TRUE], initiator, destination,
                                             a.recv, a.ack, "[" \o Hex(cmd) \o "] (undecoded)")
                             [] OTHER ->
                                  log_printf([g EXCEPT !.bad = TRUE], initiator, destination,
                                             a.recv, a.ack, "[" \o WildText \o "]")
        ELSE P("[Polling Message]")

(***************************************************************************)
(* SpecLog: the log with its callers: cec_log_enable, cec_log_disable,     *)
(* cec_log_submitf with texts of several lengths, and the emitter task.    *)
(***************************************************************************)
\* The texts submitted: of 4, 63, 64 and 70 characters.
Text4 == "line"
Text63 == "123456789012345678901234567890123456789012345678901234567890123"
Text64 == Text63 \o "4"
Text70 == Text63 \o "4567890"
Texts == {Text4, Text63, Text64, Text70}

SetLogger(g, fn) ==
  /\ enabled' = g.enabled
  /\ log_mb' = g.mb
  /\ log_call' = [fn |-> fn, said |-> g.said, bad |-> g.bad]

\* void cec_log_enable(void)
cec_log_enable ==
  /\ SetLogger([Logger EXCEPT !.enabled = TRUE], "cec_log_enable")
  /\ UNCHANGED <<sunk, log_arg, taskvars>>

\* void cec_log_disable(void)
cec_log_disable ==
  /\ SetLogger([Logger EXCEPT !.enabled = FALSE], "cec_log_disable")
  /\ UNCHANGED <<sunk, log_arg, taskvars>>

\* void cec_log_submitf(const char *fmt, ...)
cec_log_submitf ==
  /\ Len(log_mb) < MaxBuffered
  /\ \E text \in Texts : SetLogger(cec_log_vsubmitf(Logger, text, ""), "cec_log_submitf")
  /\ UNCHANGED <<sunk, log_arg, taskvars>>

\* One turn of the loop of cec_log_task that receives a line: the line is
\* taken from the message buffer and handed to the sink.
cec_log_task ==
  /\ log_mb # <<>>
  /\ log_mb' = Tail(log_mb)
  /\ sunk' = <<[line |-> Head(log_mb), while |-> enabled]>>
  /\ log_call' = [fn |-> "cec_log_task", said |-> <<>>, bad |-> FALSE]
  /\ UNCHANGED <<enabled, log_arg, taskvars>>

\* The configuration of the runs that exercise the log only.
LogConfig ==
  [device_type |-> CEC_TYPE_PLAYBACK, logical_address |-> 15, physical_address |-> 12288]

NextLog == cec_log_enable \/ cec_log_disable \/ cec_log_submitf \/ cec_log_task

InitLog == Init /\ config = LogConfig

SpecLog == InitLog /\ [][NextLog]_vars

(***************************************************************************)
(* SpecLogFrame: cec_log_frame applied to one frame, drawn at the start of *)
(* the run with its recv and ack, as often as the run likes.               *)
(***************************************************************************)
LogHeaders == {4, 64, 15}

\* Frames of every case of cec_log_frame, with the operands it prints; 0x01
\* and 0xAA have no entry in cec_message, 0x06 and 0xFF none among the reasons.
LogFrames ==
  UNION {
    {<<h>>, <<h, CEC_ID_STANDBY>>, <<h, CEC_ID_GIVE_OSD_NAME>>, <<h, CEC_ID_ABORT>>,
     <<h, CEC_ID_REPORT_AUDIO_STATUS, 50>>, <<h, 1>>, <<h, 170>>,
     <<h, CEC_ID_ROUTING_CHANGE, 48, 0, 48, 16>>, <<h, CEC_ID_ACTIVE_SOURCE, 48, 0>>,
     <<h, CEC_ID_REPORT_PHYSICAL_ADDRESS, 48, 0, 4>>,
     <<h, CEC_ID_USER_CONTROL_PRESSED, 65>>, <<h, CEC_ID_USER_CONTROL_PRESSED, 2>>,
     <<h, CEC_ID_VENDOR_COMMAND_WITH_ID, 0, 16, 250>>,
     <<h, CEC_ID_REPORT_POWER_STATUS, 1>>, <<h, CEC_ID_REPORT_POWER_STATUS, 9>>,
     <<h, CEC_ID_MENU_STATUS, 0>>, <<h, CEC_ID_MENU_REQUEST, 2>>}
    \cup {<<h, CEC_ID_FEATURE_ABORT, 170, r>> : r \in {0, 1, 4, 5, 6, 255}}
    : h \in LogHeaders}

LogArgs == [frame : LogFrames, recv : BOOLEAN, ack : BOOLEAN]

InitLogFrame == InitTask /\ config = LogConfig /\ InitLogger /\ log_arg \in LogArgs

\* cec_log_frame(frame, recv) is called; a call that faults ends the run.
LogFrame ==
  /\ Len(log_mb) < MaxBuffered
  /\ log_call.fn # "fault"
  /\ \E wild \in WildReads :
       LET g == cec_log_frame(Logger, log_arg, wild)
       IN  SetLogger(g, IF g.fault THEN "fault" ELSE "cec_log_frame")
  /\ UNCHANGED <<sunk, log_arg, taskvars>>

NextLogFrame ==
  \/ cec_log_enable
  \/ cec_log_disable
  \/ LogFrame
  \/ cec_log_task

SpecLogFrame == InitLogFrame /\ [][NextLogFrame]_vars

(***************************************************************************)
(* Properties.                                                             *)
(***************************************************************************)
\* The octets of the frames sent, in the order sent.
Sent(o) == [i \in 1..Len(o) |-> o[i].pld]

\* The PINGs among the frames sent.
Pings(o) == SelectSeq(o, LAMBDA m : Len(m.pld) = 1)

AutoAllocate == config.logical_address \in {0, 15}

\* C1 as claimed: every frame handed to cec_frame_send, the PINGs of the
\* allocation included, has the laddr of that moment in the high nibble of its
\* first octet.
C1_EveryFrameCarriesLaddr ==
  \A i \in 1..Len(out) : out[i].pld[1] \div 16 = out[i].laddr

\* C1 as amended: every frame other than a PING has the laddr of the moment it
\* is sent in the high nibble of its first octet; a PING has the candidate it
\* probes, an entry of the device type's row, in both nibbles.
C1_RepliesCarryLaddr ==
  \A i \in 1..Len(out) :
    IF Len(out[i].pld) > 1
      THEN out[i].pld[1] \div 16 = out[i].laddr
      ELSE \E k \in 1..NUM_LADDRESS :
             out[i].pld[1] = 17 * laddress[config.device_type][k]

\* A ROUTING_CHANGE was answered with PINGs that do not carry the laddr of the
\* moment and with replies that carry the new laddr, which differs from the old.
C1_Witness ==
  /\ pc = "handled"
  /\ \E i, j \in 1..Len(out) :
       /\ Len(out[i].pld) = 1
       /\ out[i].pld[1] \div 16 # out[i].laddr
       /\ Len(out[j].pld) > 1
       /\ out[j].laddr # out[i].laddr

\* C2: under a configuration whose logical_address is neither 0x00 nor 0x0F,
\* laddr is the configured value once startup is over, whatever the device
\* type and whatever the bus acknowledges, and startup sends no PING.
C2_ConfiguredAddressUsed ==
  (pc # "boot" /\ ~AutoAllocate) =>
     /\ laddr = config.logical_address
     /\ (pc = "started" => out = <<>>)

\* Startup is over under a TV configuration with logical address 4.
C2_Witness ==
  /\ pc = "started"
  /\ config.logical_address = 4
  /\ config.device_type = CEC_TYPE_TV
  /\ laddr = 4

\* C3: an allocation PINGs the candidates of the device type's row in row
\* order, each with the single octet (addr << 4) | addr, goes on only after an
\* acknowledged PING, stops at the first PING that is not acknowledged, and laddr
\* becomes the candidate PINGed last; startup under an auto-allocating
\* configuration runs an allocation.  Playback Device with 0x04 acknowledged and
\* 0x08 not: [0x44], [0x88] are sent and laddr becomes 0x08.
C3_PingsInRowOrder ==
  LET row == laddress[config.device_type]
      p == Pings(out)
      n == Len(p)
  IN  /\ (pc = "started" /\ AutoAllocate) => (n >= 1 /\ n = Len(out))
      /\ (pc \in {"started", "handled"} /\ n >= 1) =>
           /\ n <= NUM_LADDRESS
           /\ \A i \in 1..n : p[i].pld = <<row[i] * 16 + row[i]>>
           /\ \A i \in 1..(n - 1) : p[i].ack
           /\ n < NUM_LADDRESS => ~p[n].ack
           /\ laddr = row[n]
           /\ \A i \in 1..n : out[i] = p[i]
      /\ (pc = "started" /\ config.device_type = CEC_TYPE_PLAYBACK /\ AutoAllocate
          /\ out[1].ack /\ Len(out) > 1 /\ ~out[2].ack) =>
           (Sent(out) = <<(<<68>>), (<<136>>)>> /\ laddr = 8)

\* Startup of a Playback Device: 0x04 was acknowledged, 0x08 was not.
C3_Witness ==
  /\ pc = "started"
  /\ config.device_type = CEC_TYPE_PLAYBACK
  /\ Len(out) = 2
  /\ out[1].pld = <<68>> /\ out[1].ack
  /\ out[2].pld = <<136>> /\ ~out[2].ack
  /\ laddr = 8

\* C4 as claimed: for every device type auto-allocation sends at most 4 PINGs,
\* ends with laddr = 0x0F when every PING was acknowledged, and never sets laddr
\* to an address 0x0..0xE whose PING (the last one sent) was acknowledged.
C4_OccupiedNeverClaimed ==
  (pc = "started" /\ AutoAllocate) =>
     /\ Len(out) <= NUM_LADDRESS
     /\ (\A i \in 1..Len(out) : out[i].ack) => laddr = UNREGISTERED
     /\ laddr \in 0..14 => ~out[Len(out)].ack

\* A step of the loop body that handles the frame rx'.
Handling == pc = "recv" /\ pc' = "handled"

Directed == Len(rx') > 1 /\ Destination(rx') = laddr

ProtocolStateUnchanged ==
  UNCHANGED <<laddr, paddr, active_addr, audio_status, menu_state>>

\* C5: a frame longer than one octet, addressed to laddr, whose opcode has no
\* case in the switch is answered with exactly one frame, the FEATURE_ABORT
\* [(laddr << 4) | initiator, 0x00, opcode, 0x00], and changes no state;
\* [0x04, 0xAA] to laddr 4 is answered with [0x40, 0x00, 0xAA, 0x00].
C5_UnknownOpcodeAborted ==
  [][(Handling /\ Directed /\ Pld(rx', 1) \notin SwitchOpcodes) =>
       /\ Sent(out') = <<(<<laddr * 16 + Initiator(rx'), 0, Pld(rx', 1), 0>>)>>
       /\ ProtocolStateUnchanged
       /\ UNCHANGED <<hidq, no_active>>
       /\ (rx' = <<4, 170>> => Sent(out') = <<(<<64, 0, 170, 0>>)>>)]_vars

\* [0x04, 0xAA] was handled at laddr 4.
C5_Witness ==
  /\ pc = "handled"
  /\ rx = <<4, 170>>
  /\ laddr = 4
  /\ Sent(out) = <<(<<64, 0, 170, 0>>)>>

\* The frames a SET_STREAM_PATH naming paddr is answered with, the operand of
\* MENU_STATUS being ms.
StreamPathReplies(ms) ==
  <<(<<laddr * 16, 4>>),
    (<<laddr * 16 + 15, 130, paddr \div 256, paddr % 256>>),
    (<<laddr * 16, 142, ms>>)>>

\* What C6 says of SET_STREAM_PATH frames that hold their 16-bit operand.
StreamPathHandled(ms) ==
  (Handling /\ Len(rx') >= 4 /\ Pld(rx', 1) = CEC_ID_SET_STREAM_PATH) =>
     IF Word(rx', 2) = paddr
       THEN /\ active_addr' = paddr
            /\ menu_state' = TRUE
            /\ Sent(out') = StreamPathReplies(ms)
       ELSE /\ out' = <<>>
            /\ ProtocolStateUnchanged
            /\ UNCHANGED <<hidq, no_active>>

\* C6 as claimed: a SET_STREAM_PATH naming paddr sets active_addr = paddr and
\* menu_state = true and sends IMAGE_VIEW_ON to the TV, broadcast ACTIVE_SOURCE
\* and MENU_STATUS to the TV with operand 0x01; one naming another address sends
\* nothing and changes nothing.
C6_MenuStatusOperandOne == [][StreamPathHandled(1)]_vars

\* C6 as amended: the same, the operand of MENU_STATUS being 0x00
\* (CEC_MENU_ACTIVATE): [(laddr << 4) | 0x0, 0x8E, 0x00].
C6_StreamPathAnnounced == [][StreamPathHandled(0)]_vars

\* [0x0F, 0x86, 0x30, 0x00] was handled at laddr 4, paddr 0x3000.
C6_Witness ==
  /\ pc = "handled"
  /\ rx = <<15, 134, 48, 0>>
  /\ laddr = 4 /\ paddr = 12288 /\ active_addr = 12288 /\ menu_state
  /\ Sent(out) = <<(<<64, 4>>), (<<79, 130, 48, 0>>), (<<64, 142, 0>>)>>

\* The opcodes whose cases act whatever the destination is.
BusWideOpcodes ==
  {CEC_ID_ROUTING_CHANGE, CEC_ID_ACTIVE_SOURCE, CEC_ID_REQUEST_ACTIVE_SOURCE,
   CEC_ID_SET_STREAM_PATH}

\* C7: a frame whose destination is neither laddr nor 0x0F and whose opcode is
\* not ROUTING_CHANGE, ACTIVE_SOURCE, REQUEST_ACTIVE_SOURCE or SET_STREAM_PATH
\* leaves laddr, paddr, active_addr, audio_status and menu_state as they are,
\* sends no frame and queues no HID code.
C7_ForeignFrameIgnored ==
  [][(Handling /\ Destination(rx') \notin {laddr, 15}
      /\ (Len(rx') <= 1 \/ Pld(rx', 1) \notin BusWideOpcodes)) =>
       /\ ProtocolStateUnchanged
       /\ out' = <<>>
       /\ hidq' = hidq]_vars

\* A STANDBY from 5 to the TV was handled at laddr 4 while active_addr was set.
C7_Witness ==
  /\ pc = "handled"
  /\ rx = <<80, CEC_ID_STANDBY>>
  /\ laddr = 4
  /\ active_addr = 12288
  /\ out = <<>>

\* The requests C8 lists and the replies it calls broadcast.
DirectedRequests ==
  {CEC_ID_SYSTEM_AUDIO_MODE_REQUEST, CEC_ID_GIVE_AUDIO_STATUS,
   CEC_ID_GIVE_SYSTEM_AUDIO_MODE_STATUS, CEC_ID_MENU_REQUEST,
   CEC_ID_GIVE_DEVICE_POWER_STATUS, CEC_ID_GET_CEC_VERSION, CEC_ID_GIVE_OSD_NAME,
   CEC_ID_ABORT}
BroadcastReplies ==
  {CEC_ID_ACTIVE_SOURCE, CEC_ID_REPORT_PHYSICAL_ADDRESS, CEC_ID_DEVICE_VENDOR_ID}

\* C8: each of the listed requests, addressed to laddr, is answered with exactly
\* one frame, whose first octet is (laddr << 4) | initiator; [0x04, 0x46] is
\* answered with SET_OSD_NAME "Pico-CEC" and [0x04, 0x9F] with [0x40, 0x9E, 0x04];
\* every ACTIVE_SOURCE, REPORT_PHYSICAL_ADDRESS and DEVICE_VENDOR_ID sent has
\* destination 0xF.
C8_RepliesAddressed ==
  [][/\ (Handling /\ Directed /\ Pld(rx', 1) \in DirectedRequests) =>
          /\ Len(out') = 1
          /\ out'[1].pld[1] = laddr * 16 + Initiator(rx')
          /\ (laddr = 4 /\ rx' = <<4, 70>>) =>
               Sent(out') = <<(<<64, 71, 80, 105, 99, 111, 45, 67, 69, 67>>)>>
          /\ (laddr = 4 /\ rx' = <<4, 159>>) => Sent(out') = <<(<<64, 158, 4>>)>>
     /\ \A i \in 1..Len(out') :
          (Len(out'[i].pld) > 1 /\ out'[i].pld[2] \in BroadcastReplies) =>
             out'[i].pld[1] % 16 = 15]_vars

\* GIVE_OSD_NAME from 5 was handled at laddr 8.
C8_Witness ==
  /\ pc = "handled"
  /\ rx = <<88, CEC_ID_GIVE_OSD_NAME>>
  /\ laddr = 8
  /\ Sent(out) = <<(<<133, 71, 80, 105, 99, 111, 45, 67, 69, 67>>)>>

\* C9 as claimed: the counter outlives the iteration, so the REQUEST_ACTIVE_SOURCE
\* that takes it past 2 (the third in a row since it was last reset) is answered
\* with IMAGE_VIEW_ON and ACTIVE_SOURCE although paddr differs from active_addr.
C9_ThirdRequestAnnounces ==
  (pc = "handled" /\ no_active_counter = 3) =>
     Sent(out) = <<image_view_on(laddr, 0), active_source(laddr, paddr)>>

\* C10: a frame of reported length 0 or 1, whatever its header octet, leaves
\* laddr, paddr, active_addr, audio_status and menu_state as they are, sends no
\* frame and queues no HID code.
C10_PollIgnored ==
  [][(Handling /\ Len(rx') <= 1) =>
       /\ ProtocolStateUnchanged
       /\ out' = <<>>
       /\ hidq' = hidq]_vars

\* A polling message from the TV to the broadcast address, which is also the
\* laddr of this unregistered node, was handled.
C10_Witness ==
  /\ pc = "handled"
  /\ rx = <<15>>
  /\ laddr = UNREGISTERED
  /\ out = <<>>

\* A user-control frame addressed to laddr: rx' that hands a key code to the
\* HID queue, and the code.
KeyFrame == Len(rx') > 1 /\ Pld(rx', 1) \in KeyOpcodes
Mapped == KeymapName(Pld(rx', 2)) # "NULL"
Room == Len(hidq) < HidQueueLen

C12_FullQueueDrops ==
  [][/\ (Handling /\ KeyFrame /\ Directed /\ ~Room) =>
          /\ ProtocolStateUnchanged
          /\ out' = <<>>
          /\ pc' = "handled"
          /\ Offered(rx') # <<>> =>
               /\ hid_log' # <<>>
               /\ hid_log'[Len(hid_log')].key = Offered(rx')[1]
               /\ ~hid_log'[Len(hid_log')].queued => hidq' = hidq
               /\ hid_log'[Len(hid_log')].queued =>
                    hidq' = Append(Tail(hidq), Offered(rx')[1])
          /\ Offered(rx') = <<>> => hidq' = hidq
     /\ (Handling /\ Directed /\ Pld(rx', 1) = CEC_ID_GIVE_OSD_NAME
         /\ hid_log # <<>> /\ ~hid_log[Len(hid_log)].queued) =>
          Sent(out') = <<set_osd_name(laddr, Initiator(rx'))>>]_vars

\* [0x04, 0x45] was handled at laddr 4 while the queue was full of the key code
\* of volume up: HID_KEY_NONE was dropped, the queue holds what it held.
C12_Witness ==
  /\ pc = "handled"
  /\ rx = <<4, 69>>
  /\ laddr = 4
  /\ Len(hidq) = HidQueueLen
  /\ hidq[Len(hidq)] = 128
  /\ hid_log = <<[key |-> 128, queued |-> TRUE], [key |-> HID_KEY_NONE, queued |-> FALSE]>>
  /\ out = <<>>

\* The acknowledgements the PINGs of this iteration got.
PingAcks(o) == LET p == Pings(o) IN [i \in 1..Len(p) |-> p[i].ack]

\* The frames the loop body sends for rx' when every reply is acknowledged, the
\* PINGs and the EDID answering as they did in this step.
AckedRun ==
  Dispatch(State, rx', config,
           [acks |-> PingAcks(out'), racks |-> AllAcked, ddc |-> paddr',
            drain |-> FALSE]).out

\* C13: whatever cec_frame_send reports for them, the replies to an inbound
\* frame are those sent when every one of them is acknowledged, in the same
\* order, each once (no reply is sent again, none is left out after one that
\* was not acknowledged); and they are all sent within the loop body that
\* received the frame: once startup is over, no other step sends a frame.
C13_RepliesSentOnce ==
  [][/\ Handling =>
          /\ LET run == AckedRun
             IN  /\ Len(out') = Len(run)
                 /\ \A i \in 1..Len(run) : out'[i].pld = run[i].pld
          /\ \A i, j \in 1..Len(out') :
               (i < j /\ Len(out'[i].pld) > 1) => out'[i].pld # out'[j].pld
     /\ (pc # "boot" /\ ~Handling) => (out' = out \/ out' = <<>>)]_vars

\* A SET_STREAM_PATH naming paddr was answered with its three frames although
\* the first two were not acknowledged.
C13_Witness ==
  /\ pc = "handled"
  /\ Pld(rx, 1) = CEC_ID_SET_STREAM_PATH
  /\ Len(out) = 3
  /\ ~out[1].ack /\ ~out[2].ack /\ out[3].ack
  /\ Sent(out) = <<image_view_on(laddr, 0), active_source(laddr, paddr),
                   menu_status(laddr, 0, TRUE)>>

\* C14: no line submitted while enabled was false is in the message buffer or
\* reaches the sink: a call of cec_log_submitf made while the flag is false,
\* which it is from cec_log_init on and from any cec_log_disable to the next
\* cec_log_enable, leaves the buffer as it is.  The emitter task does not look
\* at the flag: whenever a line waits in the buffer it can take it, and the
\* line it handed to the sink last was submitted while the flag was true.
C14_DisabledSubmitsDropped ==
  /\ \A i \in 1..Len(log_mb) : log_mb[i].on
  /\ sunk # <<>> => sunk[1].line.on
  /\ (log_call.fn = "cec_log_init") => (~enabled /\ log_mb = <<>>)
  /\ (log_call.fn = "cec_log_disable") => ~enabled
  /\ (log_call.fn = "cec_log_submitf" /\ ~log_call.said[1].on) =>
       (log_mb = <<>> \/ log_mb[Len(log_mb)] # log_call.said[1])
  /\ log_mb # <<>> => ENABLED cec_log_task

\* A line was submitted after cec_log_disable and dropped, while a line submitted
\* before it waits in the buffer for the emitter task.
C14_Witness ==
  /\ ~enabled
  /\ log_call.fn = "cec_log_submitf"
  /\ log_call.said = <<[text |-> Text4, arrow |-> "", on |-> FALSE]>>
  /\ log_mb = <<[text |-> Text63, arrow |-> "", on |-> TRUE]>>

\* C15 as claimed: while enabled is true and the message buffer has room for
\* a full line, a call of cec_log_submitf whose text has 64 characters or more
\* adds a line of 63 characters, the truncated text, to the buffer.
C15_LongLineTruncated ==
  [][(/\ log_call'.fn = "cec_log_submitf"
      /\ enabled
      /\ Len(log_call'.said[1].text) >= LOG_LINE_LENGTH
      /\ MbUsed(log_mb) + LOG_LINE_LENGTH <= LOG_MB_SIZE) =>
       /\ Len(log_mb') = Len(log_mb) + 1
       /\ Len(log_mb'[Len(log_mb')].text) = LOG_LINE_LENGTH - 1]_vars

\* The arrow spec section 4.3 gives a frame by its direction and its ack.
Arrow(recv, ack) ==
  CASE ~recv /\ ack -> "->"
    [] ~recv /\ ~ack -> "~>"
    [] recv /\ ack -> "<-"
    [] recv /\ ~ack -> "<~"

\* C16 as claimed: the line cec_log_frame(frame, recv) puts into the message
\* buffer has the arrow "->" for a frame sent (recv false) and acknowledged, "~>" for one sent
\* and not acknowledged, "<-" for one received (recv true) and acknowledged,
\* "<~" for one received and not acknowledged.
C16_ArrowsByDirection ==
  (/\ log_call.fn = "cec_log_frame"
   /\ log_call.said # <<>>
   /\ \E i \in 1..Len(log_mb) : log_mb[i] = log_call.said[1]) =>
     log_call.said[1].arrow = Arrow(log_arg.recv, log_arg.ack)

\* C17 as claimed: cec_log_frame reads through no absent entry of cec_message
\* and through no entry beyond the six of cec_feature_abort_reason, and for a
\* frame longer than one octet whose opcode has no entry in cec_message the
\* line it hands to the log ends in "[<opcode in hex>] (undecoded)".
C17_AbsentEntriesChecked ==
  (log_call.fn \in {"cec_log_frame", "fault"}) =>
     /\ ~log_call.bad
     /\ (Len(log_arg.frame) > 1 /\ cec_message[Pld(log_arg.frame, 1)] = NULL) =>
          /\ log_call.said # <<>>
          /\ \E prefix \in {"[" \o Uptime \o "] " \o Hex02(x) \o " " \o a \o " " \o Hex02(y) :
                             x \in 0..15, y \in 0..15, a \in {"->", "~>", "<-", "<~"}} :
               log_call.said[1].text =
                 prefix \o ": [" \o Hex(Pld(log_arg.frame, 1)) \o "] (undecoded)" \o LOG_BR

\* The frames C18 lists: rx' is shorter than the operands its case looks at.
ShortOfOperands ==
  /\ Len(rx') > 1
  /\ \/ Pld(rx', 1) = CEC_ID_ROUTING_CHANGE /\ Len(rx') < 6
     \/ Pld(rx', 1) \in {CEC_ID_ACTIVE_SOURCE, CEC_ID_SET_STREAM_PATH} /\ Len(rx') < 4
     \/ Pld(rx', 1) \in {CEC_ID_SET_SYSTEM_AUDIO_MODE, CEC_ID_MENU_REQUEST,
                        CEC_ID_USER_CONTROL_PRESSED} /\ Len(rx') = 2

\* C18 as claimed: a frame too short to hold the operand its case looks at has
\* no effect that comes from the missing octets: active_addr, audio_status and
\* menu_state, which the cases set from operands, stay as they are, no frame
\* but allocation PINGs is sent on the strength of a comparison with the
\* operand, and no HID code is queued.
C18_MissingOperandsUnused ==
  [][(Handling /\ ShortOfOperands) =>
       /\ UNCHANGED <<active_addr, audio_status, menu_state, hidq>>
       /\ Pld(rx', 1) # CEC_ID_MENU_REQUEST => Replies(out') = <<>>]_vars

\* C19: a ROUTING_CHANGE that holds its operands, whatever its destination,
\* sets active_addr to the 16-bit value of octets 4 and 5; paddr is derived anew
\* (the configured address, or what the EDID says when none is configured) and
\* so is laddr (the configured address, or the candidate of the last PING of an
\* allocation run now); exactly when the new paddr equals the new active_addr,
\* IMAGE_VIEW_ON to 0x0 and then broadcast ACTIVE_SOURCE(paddr) are sent, both
\* with the new laddr as initiator and after the PINGs; otherwise nothing but
\* PINGs is sent.
C19_RoutingChangeAnnounces ==
  [][(Handling /\ Len(rx') >= 6 /\ Pld(rx', 1) = CEC_ID_ROUTING_CHANGE) =>
       LET p == Pings(out')
           n == Len(p)
       IN  /\ active_addr' = Word(rx', 4)
           /\ IF config.physical_address # 0
                THEN paddr' = config.physical_address
                ELSE paddr' \in DdcValues
           /\ IF AutoAllocate
                THEN /\ n >= 1
                     /\ p[n].pld = cec_ping(laddr')
                     /\ \E k \in 1..NUM_LADDRESS : laddr' = laddress[config.device_type][k]
                ELSE n = 0 /\ laddr' = config.logical_address
           /\ \A i \in 1..n : out'[i] = p[i]
           /\ IF paddr' = active_addr'
                THEN /\ Len(out') = n + 2
                     /\ out'[n + 1].pld = <<laddr' * 16, CEC_ID_IMAGE_VIEW_ON>>
                     /\ out'[n + 2].pld = <<laddr' * 16 + 15, CEC_ID_ACTIVE_SOURCE,
                                            paddr' \div 256, paddr' % 256>>
                ELSE Len(out') = n]_vars

\* A ROUTING_CHANGE to 3.0.0.0, sent to the TV, moved a Playback Device at
\* 3.0.0.0 from laddr 4 to 8, and it announced itself from 8.
C19_Witness ==
  /\ pc = "handled"
  /\ rx = <<80, CEC_ID_ROUTING_CHANGE, 0, 0, 48, 0>>
  /\ config.device_type = CEC_TYPE_PLAYBACK
  /\ laddr = 8 /\ paddr = 12288 /\ active_addr = 12288
  /\ Len(out) = 4
  /\ out[1].laddr = 4
  /\ Sent(out) = <<(<<68>>), (<<136>>), (<<128, 4>>), (<<143, 130, 48, 0>>)>>

\* C20: a GIVE_DEVICE_POWER_STATUS addressed to laddr is answered with one
\* frame, REPORT_POWER_STATUS to the initiator, whose operand is 1 (Standby) if
\* active_addr differs from paddr at that moment and 0 (On) if not, and changes
\* neither; a SET_STREAM_PATH naming paddr leaves active_addr equal to paddr, so
\* that the answer is 0 from then on, and a STANDBY addressed to laddr or
\* broadcast leaves active_addr at 0x0000, so that with paddr other than 0x0000
\* the answer is 1 from then on, until another frame changes active_addr.
C20_PowerStatusFollowsActive ==
  [][/\ (Handling /\ Directed /\ Pld(rx', 1) = CEC_ID_GIVE_DEVICE_POWER_STATUS) =>
          /\ Sent(out') = <<(<<laddr * 16 + Initiator(rx'), CEC_ID_REPORT_POWER_STATUS,
                               IF active_addr # paddr THEN 1 ELSE 0>>)>>
          /\ ProtocolStateUnchanged
     /\ (Handling /\ Len(rx') >= 4 /\ Pld(rx', 1) = CEC_ID_SET_STREAM_PATH
         /\ Word(rx', 2) = paddr) =>
          (active_addr' = paddr /\ paddr' = paddr)
     /\ (Handling /\ Len(rx') > 1 /\ Pld(rx', 1) = CEC_ID_STANDBY
         /\ Destination(rx') \in {laddr, 15}) =>
          (active_addr' = 0 /\ paddr' = paddr)
     /\ (Handling /\ Len(rx') > 1
         /\ Pld(rx', 1) \notin {CEC_ID_ROUTING_CHANGE, CEC_ID_ACTIVE_SOURCE,
                                CEC_ID_SET_STREAM_PATH, CEC_ID_STANDBY,
                                CEC_ID_REPORT_PHYSICAL_ADDRESS}) =>
          UNCHANGED <<active_addr, paddr>>
     /\ (~Handling /\ pc # "boot") => UNCHANGED <<active_addr, paddr>>]_vars

\* The node at 3.0.0.0, its menu activated and active_addr at 0x0000, where a
\* STANDBY leaves it, answered GIVE_DEVICE_POWER_STATUS from the TV with Standby.
C20_Witness ==
  /\ pc = "handled"
  /\ rx = <<4, CEC_ID_GIVE_DEVICE_POWER_STATUS>>
  /\ laddr = 4 /\ paddr = 12288 /\ active_addr = 0
  /\ menu_state
  /\ Sent(out) = <<(<<64, CEC_ID_REPORT_POWER_STATUS, 1>>)>>

\* The positions in o of the ACTIVE_SOURCE frames.
ActiveSourcesOf(o) ==
  {i \in 1..Len(o) : Len(o[i].pld) > 1 /\ Pld(o[i].pld, 1) = CEC_ID_ACTIVE_SOURCE}

\* C21: every ACTIVE_SOURCE frame sent is broadcast from laddr and carries the
\* paddr of that moment, is sent only while active_addr equals paddr, and
\* the frame sent just before it is IMAGE_VIEW_ON to 0x0 from the same
\* initiator.
C21_ActiveSourceAnnounced ==
  \A i \in ActiveSourcesOf(out) :
    /\ out[i].pld = <<out[i].laddr * 16 + 15, CEC_ID_ACTIVE_SOURCE,
                      paddr \div 256, paddr % 256>>
    /\ out[i].laddr = laddr
    /\ active_addr = paddr
    /\ i > 1
    /\ out[i - 1].pld = <<Initiator(out[i].pld) * 16, CEC_ID_IMAGE_VIEW_ON>>

\* A Playback Device that takes its physical address from the EDID, asked by
\* the TV for the active source while it is the active source at 3.0.1.0,
\* sent IMAGE_VIEW_ON and ACTIVE_SOURCE(3.0.1.0).
C21_Witness ==
  /\ pc = "handled"
  /\ rx = <<15, CEC_ID_REQUEST_ACTIVE_SOURCE>>
  /\ config.physical_address = 0
  /\ paddr = 12304 /\ active_addr = 12304
  /\ ActiveSourcesOf(out) = {2}
  /\ Sent(out) = <<(<<laddr * 16, CEC_ID_IMAGE_VIEW_ON>>),
                   (<<laddr * 16 + 15, CEC_ID_ACTIVE_SOURCE, 48, 16>>)>>

\* The opcodes of the replies the node addresses to the initiator of a request.
DirectedReplies ==
  {CEC_ID_FEATURE_ABORT, CEC_ID_SET_OSD_NAME, CEC_ID_CEC_VERSION,
   CEC_ID_REPORT_POWER_STATUS, CEC_ID_MENU_STATUS, CEC_ID_SET_SYSTEM_AUDIO_MODE,
   CEC_ID_SYSTEM_AUDIO_MODE_STATUS, CEC_ID_REPORT_AUDIO_STATUS}

\* C22: while laddr is 0x0F (no logical address held), the handling of a
\* broadcast frame sends none of the replies FEATURE_ABORT, SET_OSD_NAME,
\* CEC_VERSION, REPORT_POWER_STATUS, MENU_STATUS, SET_SYSTEM_AUDIO_MODE,
\* SYSTEM_AUDIO_MODE_STATUS, REPORT_AUDIO_STATUS to a single device, and leaves
\* the HID queue as it was.
C22_UnregisteredOnlyListens ==
  [][(Handling /\ laddr = UNREGISTERED /\ Len(rx') > 1 /\ Destination(rx') = 15) =>
       /\ \A i \in 1..Len(out') :
            (Len(out'[i].pld) > 1 /\ Pld(out'[i].pld, 1) \in DirectedReplies) =>
              Destination(out'[i].pld) = 15
       /\ hidq' = hidq]_vars

====
